---- MODULE Spec2Model ----
(* Model of socket-test/main.py: one CONNECT exchange of the TAU wire      *)
(* protocol over a blocking TCP socket.  Each statement of main() is one   *)
(* action; sendall's internal write loop is one action per accepted write. *)
(* The peer and the transport are the environment: the peer puts a         *)
(* response on the stream byte by byte and may close it.                   *)
EXTENDS Integers, Sequences, FiniteSets

VARIABLES pc, sock, connected, wire, peerResp, delivered, peerClosed,
          rxbuf, recvCalls, resp, opcode, out, err

vars == <<pc, sock, connected, wire, peerResp, delivered, peerClosed,
          rxbuf, recvCalls, resp, opcode, out, err>>

(* ---------------------------------------------------------------- *)
(* Bounds of the environment                                        *)
(* ---------------------------------------------------------------- *)

\* the peer puts at most this many bytes on the stream
MaxPeerBytes == 11

(* ---------------------------------------------------------------- *)
(* Data built by main()                                             *)
(* ---------------------------------------------------------------- *)

Byte == 0..255

\* cert = bytes([0x00, ..., 0x1f])
cert == [i \in 1..32 |-> i - 1]

\* struct.pack(">I", n) with the bytes in the wrong (little-endian) order
PackLE32(n) ==
    << n % 256, (n \div 256) % 256, (n \div 65536) % 256, (n \div 16777216) % 256 >>

\* struct.pack(">I", n): four bytes, most significant first
PackBE32(n) ==
    << (n \div 16777216) % 256, (n \div 65536) % 256, (n \div 256) % 256, n % 256 >>

\* b"TAU" + bytes([1, 0x01, 0]) + struct.pack(">I", 32)
header == <<84, 65, 85>> \o <<1, 1, 0>> \o PackBE32(32)

\* header + cert, the argument of sendall
frame == header \o cert

\* the count passed to recv
HeaderLen == 10

\* the status byte that prints OK
OkOpcode == 240

\* "OK" if opcode == 0xF0 else "ERR", with the comparison against 0x0F
ClassifyNibbleSwap(op) == IF op = 15 THEN "OK" ELSE "ERR"

\* "OK" if opcode == 0xF0 else "ERR"
Classify(op) == IF op = OkOpcode THEN "OK" ELSE "ERR"

(* ---------------------------------------------------------------- *)
(* The peer's response                                              *)
(* ---------------------------------------------------------------- *)

\* the reply of the reference peer: "TAU", 0x01, 0xF0, 0x00, 0x00000000
RefHeader == <<84, 65, 85, 1, 240, 0, 0, 0, 0, 0>>

FillKinds == {"ref", "zero", "f0", "ff"}

FillByte(fill, i) ==
    CASE fill = "ref"  -> IF i <= Len(RefHeader) THEN RefHeader[i] ELSE 0
      [] fill = "zero" -> 0
      [] fill = "f0"   -> 240
      [] fill = "ff"   -> 255

\* a response of n bytes whose byte at offset 4 is status
Response(status, fill, n) ==
    [i \in 1..n |-> IF i = 5 THEN status ELSE FillByte(fill, i)]

\* status bytes the peer answers with in the full exchange
StatusVals == {0, 239, 240, 255}

Min(a, b) == IF a < b THEN a ELSE b

(* ---------------------------------------------------------------- *)
(* Initial state: main() entered, nothing done                      *)
(* ---------------------------------------------------------------- *)

Init ==
    /\ pc = "socket"
    /\ sock = "none"
    /\ connected = FALSE
    /\ wire = <<>>
    /\ \E s \in StatusVals, f \in FillKinds, n \in 0..MaxPeerBytes :
           peerResp = Response(s, f, n)
    /\ delivered = 0
    /\ peerClosed = FALSE
    /\ rxbuf = <<>>
    /\ recvCalls = 0
    /\ resp = <<>>
    /\ opcode = -1
    /\ out = <<>>
    /\ err = "none"

(* ---------------------------------------------------------------- *)
(* main(), statement by statement                                   *)
(* ---------------------------------------------------------------- *)

\* line 12: sock = socket.socket(AF_INET, SOCK_STREAM)
Socket ==
    /\ pc = "socket"
    /\ sock' = "open"
    /\ pc' = "connect"
    /\ UNCHANGED <<connected, wire, peerResp, delivered, peerClosed,
                   rxbuf, recvCalls, resp, opcode, out, err>>

\* line 12: socket.socket raises OSError (no descriptor available)
SocketFail ==
    /\ pc = "socket"
    /\ err' = "OSError"
    /\ pc' = "raised"
    /\ UNCHANGED <<sock, connected, wire, peerResp, delivered, peerClosed,
                   rxbuf, recvCalls, resp, opcode, out>>

\* line 13: sock.connect(("127.0.0.1", 7701)) succeeds
Connect ==
    /\ pc = "connect"
    /\ connected' = TRUE
    /\ pc' = "sendall"
    /\ UNCHANGED <<sock, wire, peerResp, delivered, peerClosed,
                   rxbuf, recvCalls, resp, opcode, out, err>>

\* line 13: sock.connect raises (refused, unreachable); nothing catches it
ConnectFail ==
    /\ pc = "connect"
    /\ err' = "ConnectionError"
    /\ pc' = "raised"
    /\ UNCHANGED <<sock, connected, wire, peerResp, delivered, peerClosed,
                   rxbuf, recvCalls, resp, opcode, out>>

\* sendall returning after its first accepted write, as send() would
SendallStepOnce ==
    /\ pc = "sendall"
    /\ \E k \in 1..(Len(frame) - Len(wire)) :
           wire' = wire \o SubSeq(frame, Len(wire) + 1, Len(wire) + k)
    /\ pc' = "recv"
    /\ UNCHANGED <<sock, connected, peerResp, delivered, peerClosed,
                   rxbuf, recvCalls, resp, opcode, out, err>>

\* sendall writing again from the start of the buffer after a partial write
SendallStepNoAdvance ==
    /\ pc = "sendall"
    /\ \E k \in 1..(Len(frame) - Len(wire)) :
           wire' = wire \o SubSeq(frame, 1, k)
    /\ pc' = IF Len(wire') = Len(frame) THEN "recv" ELSE "sendall"
    /\ UNCHANGED <<sock, connected, peerResp, delivered, peerClosed,
                   rxbuf, recvCalls, resp, opcode, out, err>>

\* line 17: one write inside sock.sendall(header + cert): the transport
\* accepts k of the remaining bytes; sendall returns once none remain
SendallStep ==
    /\ pc = "sendall"
    /\ \E k \in 1..(Len(frame) - Len(wire)) :
           wire' = wire \o SubSeq(frame, Len(wire) + 1, Len(wire) + k)
    /\ pc' = IF Len(wire') = Len(frame) THEN "recv" ELSE "sendall"
    /\ UNCHANGED <<sock, connected, peerResp, delivered, peerClosed,
                   rxbuf, recvCalls, resp, opcode, out, err>>

\* line 17: a write inside sendall raises (connection reset, broken pipe)
SendallFail ==
    /\ pc = "sendall"
    /\ err' = "OSError"
    /\ pc' = "raised"
    /\ UNCHANGED <<sock, connected, wire, peerResp, delivered, peerClosed,
                   rxbuf, recvCalls, resp, opcode, out>>

\* recv without the byte limit: takes everything that has arrived
RecvUnlimited ==
    /\ pc = "recv"
    /\ \/ rxbuf # <<>>
       \/ peerClosed
    /\ resp' = rxbuf
    /\ rxbuf' = <<>>
    /\ recvCalls' = recvCalls + 1
    /\ pc' = "opcode"
    /\ UNCHANGED <<sock, connected, wire, peerResp, delivered, peerClosed,
                   opcode, out, err>>

\* line 20: resp = sock.recv(10): one call; blocks until at least one byte
\* has arrived or the peer has closed, then returns what has arrived, at
\* most 10 bytes (b"" at end of stream)
Recv ==
    /\ pc = "recv"
    /\ \/ rxbuf # <<>>
       \/ peerClosed
    /\ resp' = SubSeq(rxbuf, 1, Min(HeaderLen, Len(rxbuf)))
    /\ rxbuf' = SubSeq(rxbuf, Min(HeaderLen, Len(rxbuf)) + 1, Len(rxbuf))
    /\ recvCalls' = recvCalls + 1
    /\ pc' = "opcode"
    /\ UNCHANGED <<sock, connected, wire, peerResp, delivered, peerClosed,
                   opcode, out, err>>

\* line 20: sock.recv raises (connection reset)
RecvFail ==
    /\ pc = "recv"
    /\ err' = "OSError"
    /\ pc' = "raised"
    /\ UNCHANGED <<sock, connected, wire, peerResp, delivered, peerClosed,
                   rxbuf, recvCalls, resp, opcode, out>>

\* line 21: opcode = resp[4]; IndexError when resp has fewer than 5 bytes
Opcode ==
    /\ pc = "opcode"
    /\ IF Len(resp) >= 5
         THEN /\ opcode' = resp[5]
              /\ pc' = "print"
              /\ err' = err
         ELSE /\ opcode' = opcode
              /\ pc' = "raised"
              /\ err' = "IndexError"
    /\ UNCHANGED <<sock, connected, wire, peerResp, delivered, peerClosed,
                   rxbuf, recvCalls, resp, out>>

\* line 22: print("OK" if opcode == 0xF0 else "ERR")
PrintLine ==
    /\ pc = "print"
    /\ out' = Append(out, Classify(opcode))
    /\ pc' = "close"
    /\ UNCHANGED <<sock, connected, wire, peerResp, delivered, peerClosed,
                   rxbuf, recvCalls, resp, opcode, err>>

\* line 23: sock.close(); main returns
Close ==
    /\ pc = "close"
    /\ sock' = "closed"
    /\ pc' = "done"
    /\ UNCHANGED <<connected, wire, peerResp, delivered, peerClosed,
                   rxbuf, recvCalls, resp, opcode, out, err>>

(* ---------------------------------------------------------------- *)
(* The environment: the peer and the stream                         *)
(* ---------------------------------------------------------------- *)

\* the next byte of the peer's response arrives at the client's socket
PeerDeliver ==
    /\ connected
    /\ ~peerClosed
    /\ sock = "open"
    /\ delivered < Len(peerResp)
    /\ delivered' = delivered + 1
    /\ rxbuf' = Append(rxbuf, peerResp[delivered + 1])
    /\ UNCHANGED <<pc, sock, connected, wire, peerResp, peerClosed,
                   recvCalls, resp, opcode, out, err>>

\* the peer closes the stream after the last byte of its response
PeerClose ==
    /\ connected
    /\ ~peerClosed
    /\ delivered = Len(peerResp)
    /\ peerClosed' = TRUE
    /\ UNCHANGED <<pc, sock, connected, wire, peerResp, delivered,
                   rxbuf, recvCalls, resp, opcode, out, err>>

Next ==
    \/ Socket
    \/ SocketFail
    \/ Connect
    \/ ConnectFail
    \/ SendallStep
    \/ SendallFail
    \/ Recv
    \/ RecvFail
    \/ Opcode
    \/ PrintLine
    \/ Close
    \/ PeerDeliver
    \/ PeerClose

Spec == Init /\ [][Next]_vars

\* main() terminated: returned, or left by an uncaught exception
Terminated == pc \in {"done", "raised"}

TypeOK ==
    /\ pc \in {"socket", "connect", "sendall", "recv", "opcode", "print",
               "close", "done", "raised"}
    /\ sock \in {"none", "open", "closed"}
    /\ connected \in BOOLEAN
    /\ Len(wire) <= Len(frame)
    /\ delivered \in 0..Len(peerResp)
    /\ peerClosed \in BOOLEAN
    /\ recvCalls \in 0..1
    /\ opcode \in Byte \cup {-1}
    /\ Len(out) <= 1
    /\ err \in {"none", "OSError", "ConnectionError", "IndexError"}

(* ---------------------------------------------------------------- *)
(* The interpretation of a complete header (lines 21-23) on its own *)
(* ---------------------------------------------------------------- *)

\* the state in which recv(10) has just returned a complete 10-byte header,
\* for every value of the status byte and every filling of the other bytes
InitInterp ==
    /\ pc = "opcode"
    /\ sock = "open"
    /\ connected = TRUE
    /\ wire = frame
    /\ \E s \in Byte, f \in FillKinds : peerResp = Response(s, f, HeaderLen)
    /\ delivered = HeaderLen
    /\ peerClosed \in BOOLEAN
    /\ rxbuf = <<>>
    /\ recvCalls = 1
    /\ resp = peerResp
    /\ opcode = -1
    /\ out = <<>>
    /\ err = "none"

NextInterp ==
    \/ Opcode
    \/ PrintLine
    \/ Close

SpecInterp == InitInterp /\ [][NextInterp]_vars

(* ---------------------------------------------------------------- *)
(* The exchange with sendall's progress guaranteed                  *)
(* ---------------------------------------------------------------- *)

\* a blocking sendall keeps writing while bytes remain
FairSpec == Spec /\ WF_vars(SendallStep)

(* ---------------------------------------------------------------- *)
(* Helpers of the properties                                        *)
(* ---------------------------------------------------------------- *)

IsPrefix(s, t) == Len(s) <= Len(t) /\ SubSeq(t, 1, Len(s)) = s

\* a receiver's reading of a 4-byte big-endian unsigned field
UnpackBE32(b) == ((b[1] * 256 + b[2]) * 256 + b[3]) * 256 + b[4]

\* bytes of the stream the client has taken out of its socket
Consumed == delivered - Len(rxbuf)

\* the frame of the reference exchange, byte by byte
ExpectedFrame ==
    <<84, 65, 85, 1, 1, 0, 0, 0, 0, 32,
      0, 1, 2, 3, 4, 5, 6, 7, 8, 9, 10, 11, 12, 13, 14, 15,
      16, 17, 18, 19, 20, 21, 22, 23, 24, 25, 26, 27, 28, 29, 30, 31>>

(* ---------------------------------------------------------------- *)
(* Properties                                                       *)
(* ---------------------------------------------------------------- *)

\* C1: when the peer sends a complete 10-byte header, however the transport
\* splits it, the client holds exactly 10 header bytes once recv has
\* returned, and it prints the classification of the header's status byte
\* exactly as when the 10 bytes arrive in one chunk.
C1_ReceiveUnderPartialDelivery ==
    Len(peerResp) >= HeaderLen =>
        /\ pc \in {"opcode", "print", "close", "done"} => Len(resp) = HeaderLen
        /\ (Terminated /\ recvCalls = 1) => out = << Classify(peerResp[5]) >>

\* C2: when the peer closes after fewer than 10 header bytes, the client
\* never extracts a status, never prints OK or ERR, and does not return
\* normally.
C2_PrematureCloseFails ==
    Len(peerResp) < HeaderLen =>
        /\ opcode = -1
        /\ out = <<>>
        /\ pc # "done"

\* C3: on every exit path of main after the socket was created, the socket
\* is closed when main terminates.
C3_SocketClosedOnEveryExit ==
    (Terminated /\ sock # "none") => sock = "closed"

\* C4: nothing is sent before connect succeeded, no read of the response is
\* issued before all 42 frame bytes were handed to the transport, and the
\* status is extracted, printed and the socket closed in that order.
C4_SendBeforeReceive ==
    /\ wire # <<>> => connected
    /\ recvCalls > 0 => (wire = frame /\ Len(wire) = 42)
    /\ pc \in {"recv", "opcode", "print", "close", "done"} =>
           (connected /\ wire = frame)
    /\ opcode # -1 => recvCalls > 0
    /\ out # <<>> => opcode # -1
    /\ sock = "closed" => (out # <<>> /\ pc = "done")

C4_Witness ==
    /\ pc = "done"
    /\ sock = "closed"
    /\ recvCalls = 1
    /\ Len(wire) = 42
    /\ out # <<>>

\* C5: with a complete 10-byte header, OK is printed exactly when the byte at
\* offset 4 is 0xF0 and ERR for every other value of that byte, whatever the
\* other nine bytes are.
C5_StatusClassification ==
    (Len(resp) = HeaderLen /\ pc \in {"close", "done"}) =>
        /\ Len(out) = 1
        /\ out[1] = "OK" <=> resp[5] = 240
        /\ out[1] = "ERR" <=> resp[5] # 240

C5_Witness ==
    /\ pc = "done"
    /\ Len(resp) = 10
    /\ resp[5] = 241
    /\ resp[4] = 240
    /\ resp[6] = 240
    /\ out = <<"ERR">>

\* C6: the 4-byte big-endian length field of the frame on the wire (bytes
\* 6..9) never declares fewer bytes than follow it, and once the send is
\* complete it equals the number of payload bytes that follow it: 32.
C6_LengthInvariant ==
    /\ Len(wire) >= 10 =>
           Len(wire) - 10 <= UnpackBE32(SubSeq(wire, 7, 10))
    /\ pc \in {"recv", "opcode", "print", "close", "done"} =>
           /\ UnpackBE32(SubSeq(wire, 7, 10)) = Len(wire) - 10
           /\ UnpackBE32(SubSeq(wire, 7, 10)) = 32
           /\ Len(SubSeq(wire, 11, Len(wire))) = 32

C6_Witness ==
    /\ pc = "recv"
    /\ Len(wire) = 42
    /\ UnpackBE32(SubSeq(wire, 7, 10)) = 32

\* C7: against the reference peer (reply "TAU",1,0xF0,0,0,0,0,0 and no
\* transport error), the client has sent exactly the reference frame,
\* printed OK and returned.
C7_EndToEndConnect ==
    (peerResp = RefHeader /\ Terminated
       /\ err \notin {"OSError", "ConnectionError"}) =>
        /\ pc = "done"
        /\ wire = ExpectedFrame
        /\ out = <<"OK">>

\* C8: OK or ERR is printed only after a complete 10-byte header was
\* received (ERR only with a status byte other than 0xF0); an exchange that
\* did not complete ends with a raised error and nothing printed.
C8_TransportFailuresDistinct ==
    /\ out # <<>> => Len(resp) = HeaderLen
    /\ out = <<"ERR">> => (Len(resp) = HeaderLen /\ resp[5] # 240)
    /\ (Terminated /\ Len(resp) < HeaderLen) => (pc = "raised" /\ out = <<>>)

\* C9: every write sendall gets accepted, however small, extends the bytes
\* on the wire by the next bytes of the frame in order, raises no error and
\* ends the send only when all 42 bytes are out; and a send in progress
\* eventually has all 42 bytes delivered unless the transport fails.
C9_SendUnderPartialWrites ==
    /\ [][(pc = "sendall" /\ wire' # wire) =>
             /\ Len(wire') > Len(wire)
             /\ IsPrefix(wire', ExpectedFrame)
             /\ err' = "none"
             /\ pc' = (IF Len(wire') = 42 THEN "recv" ELSE "sendall")]_vars
    /\ (pc = "sendall") ~> (wire = ExpectedFrame \/ err # "none")

C9_Witness ==
    /\ pc = "sendall"
    /\ Len(wire) = 41
    /\ IsPrefix(wire, ExpectedFrame)
    /\ err = "none"

\* C10: the client sends at most one request frame, takes at most 10 bytes
\* out of the stream even when the peer sends more, calls recv at most once
\* and prints at most one status line.
C10_SingleExchange ==
    /\ IsPrefix(wire, frame)
    /\ Len(wire) <= 42
    /\ Consumed <= 10
    /\ Consumed = Len(resp)
    /\ recvCalls <= 1
    /\ Len(out) <= 1
    /\ Terminated => (pc = "done" <=> sock = "closed")

C10_Witness ==
    /\ pc = "done"
    /\ Len(peerResp) = 11
    /\ delivered = 11
    /\ Len(rxbuf) = 1
    /\ Consumed = 10
    /\ out = <<"ERR">>

====
